---- MODULE Spec2Model ----
(***************************************************************************)
(* Model of go/tools/gopackagesdriver/archive_to_json.go: the bazel        *)
(* argument parser (bazelArgsParser), its two token sources (sliceScanner  *)
(* and bufio.Scanner over the params reader), the escaped-delimiter        *)
(* splitter, parseKeyValueArg and the host function                        *)
(* parseArchiveAndOutputPath.  Spec is the parser with one Parse call,     *)
(* SpecHost the host function, SpecRegister and SpecReparse a parser with  *)
(* recorded WithArg calls and with a second Parse call, and SpecSplit,     *)
(* SpecKeyValue and SpecScanner the splitter, the key-value decoder and    *)
(* the sliceScanner on their own.                                          *)
(*                                                                         *)
(* A Go string is a sequence of one-character strings; <<>> is "".  The    *)
(* fixed text of an error message is kept as one chunk in front of the     *)
(* formatted token.                                                        *)
(***************************************************************************)
EXTENDS Integers, Sequences, FiniteSets, TLC

VARIABLES
    args,           \* bazelArgsParser.args: flag name -> Setter
    pc,             \* position of the program
    arguments,      \* the argument list of the current Parse call
    scanner,        \* the token source handed to parseBazelArguments
    currentSetter,  \* parseBazelArguments' local currentSetter
    calls,          \* setter invocations of the current Parse call, in order
    providerCalls,  \* handles passed to paramsReaderGetter in the current call
    paramsReader,   \* what paramsReaderGetter returned, and whether the
                    \* stream it returned is still open
    pulled,         \* tokens the loop has read with Text, in order
    result,         \* what Parse returned
    archive,        \* the host's output record
    outputPath,     \* parseArchiveAndOutputPath's local outputPath
    hostResult,     \* what parseArchiveAndOutputPath returned
    splitIn,        \* splitEscapedString's arguments
    splitOut,       \* splitEscapedString's return value
    kvIn,           \* parseKeyValueArg's arguments
    kvOut,          \* parseKeyValueArg's return value and the map afterwards
    scannerTrace,   \* calls made on a sliceScanner by its user, in order
    registrations,  \* WithArg calls made on the parser, in order
    previous        \* the Parse call before the current one on this parser

vars == <<args, pc, arguments, scanner, currentSetter, calls, providerCalls,
          paramsReader, pulled, result, archive, outputPath, hostResult,
          splitIn, splitOut, kvIn, kvOut, scannerTrace, registrations,
          previous>>

parserVars == <<args, pc, arguments, scanner, currentSetter, calls,
                providerCalls, paramsReader, pulled, result>>
hostVars == <<archive, outputPath, hostResult>>
splitVars == <<splitIn, splitOut>>
unitVars == <<kvIn, kvOut, scannerTrace>>
clientVars == <<registrations, previous>>

----------------------------------------------------------------------------
(* Bounds *)

\* longest argument list handed to Parse
MaxArgs == 4
\* most lines written to a params file
MaxLines == 3
\* longest argument list handed to parseArchiveAndOutputPath
MaxHostArgs == 4
\* longest string handed to splitEscapedString
MaxLen == 5
\* most WithArg calls whose order is recorded
MaxWithArgs == 3
\* longest argument list of a Parse call on a parser with recorded calls
MaxShortArgs == 2
\* longest token list of a sliceScanner used on its own
MaxTokens == 3
\* most calls made on a sliceScanner used on its own
MaxScannerCalls == 5

----------------------------------------------------------------------------
(* Strings *)

LF == "\n"
CR == "\r"
At == "@"

SeqsUpTo(S, n) == UNION {[1..k -> S] : k \in 0..n}

\* strings.Contains
Contains(s, sub) ==
    \E i \in 0..(Len(s) - Len(sub)) : SubSeq(s, i + 1, i + Len(sub)) = sub

----------------------------------------------------------------------------
(* Errors.  nil is NoErr; an error made by errors.New is a fresh value     *)
(* carrying its message; an error of a collaborator is one of its values.  *)

NoErr == [kind |-> "nil", id |-> "nil", msg |-> <<>>]
NewError(kind, msg) == [kind |-> kind, id |-> "new", msg |-> msg]
ForeignError(id) == [kind |-> "foreign", id |-> id, msg |-> <<>>]
Panic == [kind |-> "panic", id |-> "index out of range", msg |-> <<>>]
Pending == [kind |-> "pending", id |-> "nil", msg |-> <<>>]

ProviderErrs == {ForeignError("eOpen1"), ForeignError("eOpen2")}
ReadErrs == {NoErr, ForeignError("eRead")}

----------------------------------------------------------------------------
(* Token sources: the scanner interface and its two implementations *)

NoScanner ==
    [kind |-> "none", tokens |-> <<>>, lastIndex |-> -1,
     buf |-> <<>>, text |-> <<>>, readErr |-> NoErr, err |-> NoErr]

newSliceScanner(tokens) ==
    [NoScanner EXCEPT !.kind = "slice", !.tokens = tokens, !.lastIndex = -1]

\* SliceScan that starts over when the tokens are used up
SliceScanRewinds(s) ==
    IF s.lastIndex < Len(s.tokens) - 1
    THEN [ok |-> TRUE, s |-> [s EXCEPT !.lastIndex = s.lastIndex + 1]]
    ELSE [ok |-> FALSE, s |-> [s EXCEPT !.lastIndex = -1]]

\* sliceScanner.Scan: the returned flag and the scanner afterwards
SliceScan(s) ==
    IF s.lastIndex < Len(s.tokens) - 1
    THEN [ok |-> TRUE, s |-> [s EXCEPT !.lastIndex = s.lastIndex + 1]]
    ELSE [ok |-> FALSE, s |-> s]

\* sliceScanner.Text (tokens is 0-based in the source)
SliceText(s) == IF s.lastIndex < 0 THEN <<>> ELSE s.tokens[s.lastIndex + 1]

SliceErr(s) == NoErr

\* bufio.NewScanner(paramsReader): buf is what the reader still delivers
\* before it ends with readErr (NoErr: a clean end of file)
NewBufioScanner(reader) ==
    [NoScanner EXCEPT !.kind = "bufio", !.buf = reader.data,
                      !.readErr = reader.readErr]

\* bufio's dropCR
DropCR(line) ==
    IF Len(line) > 0 /\ line[Len(line)] = CR
    THEN SubSeq(line, 1, Len(line) - 1)
    ELSE line

\* position of the first line feed of data, 0 when there is none
FirstLF(data) ==
    IF \E i \in 1..Len(data) : data[i] = LF
    THEN CHOOSE i \in 1..Len(data) :
             data[i] = LF /\ \A j \in 1..(i - 1) : data[j] # LF
    ELSE 0

\* BufioScan with the carriage return left at the end of a line
BufioScanKeepCR(s) ==
    IF s.buf = <<>>
    THEN [ok |-> FALSE, s |-> [s EXCEPT !.text = <<>>, !.err = s.readErr]]
    ELSE LET i == FirstLF(s.buf)
         IN  IF i > 0
             THEN [ok |-> TRUE,
                   s |-> [s EXCEPT !.text = SubSeq(s.buf, 1, i - 1),
                                   !.buf = SubSeq(s.buf, i + 1, Len(s.buf))]]
             ELSE [ok |-> TRUE,
                   s |-> [s EXCEPT !.text = s.buf, !.buf = <<>>]]

\* BufioScan that delivers no last line without a line feed
BufioScanDropsUnterminated(s) ==
    IF s.buf = <<>> \/ FirstLF(s.buf) = 0
    THEN [ok |-> FALSE, s |-> [s EXCEPT !.text = <<>>, !.err = s.readErr]]
    ELSE LET i == FirstLF(s.buf)
         IN  [ok |-> TRUE,
              s |-> [s EXCEPT !.text = DropCR(SubSeq(s.buf, 1, i - 1)),
                              !.buf = SubSeq(s.buf, i + 1, Len(s.buf))]]

\* bufio.Scanner.Scan with the default split function bufio.ScanLines.
\* When the reader has ended (end of file or read error) the rest of the
\* data, if any, is the last token; then Scan returns false and Err
\* reports the read error.
BufioScan(s) ==
    IF s.buf = <<>>
    THEN [ok |-> FALSE, s |-> [s EXCEPT !.text = <<>>, !.err = s.readErr]]
    ELSE LET i == FirstLF(s.buf)
         IN  IF i > 0
             THEN [ok |-> TRUE,
                   s |-> [s EXCEPT !.text = DropCR(SubSeq(s.buf, 1, i - 1)),
                                   !.buf = SubSeq(s.buf, i + 1, Len(s.buf))]]
             ELSE [ok |-> TRUE,
                   s |-> [s EXCEPT !.text = DropCR(s.buf), !.buf = <<>>]]

\* the scanner interface
Scan(s) == IF s.kind = "slice" THEN SliceScan(s) ELSE BufioScan(s)
Text(s) == IF s.kind = "slice" THEN SliceText(s) ELSE s.text
Err(s) == IF s.kind = "slice" THEN SliceErr(s) ELSE s.err

----------------------------------------------------------------------------
(* Escaped-delimiter splitter and key-value decoding *)

\* SplitStep with the delimiter case tested before the escaped case
SplitStepDelimiterFirst(st, r, delimiter, escape) ==
    IF r = delimiter
    THEN [st EXCEPT !.values = Append(st.values, st.field), !.field = <<>>,
                    !.escaped = FALSE]
    ELSE IF st.escaped
    THEN [st EXCEPT !.field = Append(st.field, r), !.escaped = FALSE]
    ELSE IF r = escape
    THEN [st EXCEPT !.escaped = TRUE]
    ELSE [st EXCEPT !.field = Append(st.field, r)]

\* one iteration of the range loop of splitEscapedString
SplitStep(st, r, delimiter, escape) ==
    IF st.escaped
    THEN [st EXCEPT !.field = Append(st.field, r), !.escaped = FALSE]
    ELSE IF r = escape
    THEN [st EXCEPT !.escaped = TRUE]
    ELSE IF r = delimiter
    THEN [st EXCEPT !.values = Append(st.values, st.field), !.field = <<>>]
    ELSE [st EXCEPT !.field = Append(st.field, r)]

RECURSIVE SplitLoop(_, _, _, _, _)
SplitLoop(value, i, st, delimiter, escape) ==
    IF i > Len(value)
    THEN st
    ELSE SplitLoop(value, i + 1, SplitStep(st, value[i], delimiter, escape),
                   delimiter, escape)

\* splitEscapedString with an escape character at the end of the input
\* written to the last field
splitEscapedStringKeepsDangling(value, delimiter, escape) ==
    LET st == SplitLoop(value, 1,
                        [field |-> <<>>, escaped |-> FALSE, values |-> <<>>],
                        delimiter, escape)
    IN  IF st.escaped
        THEN Append(st.values, Append(st.field, escape))
        ELSE Append(st.values, st.field)

splitEscapedString(value, delimiter, escape) ==
    LET st == SplitLoop(value, 1,
                        [field |-> <<>>, escaped |-> FALSE, values |-> <<>>],
                        delimiter, escape)
    IN  Append(st.values, st.field)

Eq == "="
Backslash == "\\"

\* m[k] = v on a Go map
MapSet(m, k, v) ==
    [x \in (DOMAIN m) \cup {k} |-> IF x = k THEN v ELSE m[x]]

\* parseKeyValueArg that takes the first two of more than two fields
parseKeyValueArgExtraFields(value, m) ==
    LET fields == splitEscapedString(value, Eq, Backslash)
    IN  IF Len(fields) < 2
        THEN [err |-> NewError("malformed",
                               <<"could not parse key value pair: ">> \o value),
              m |-> m]
        ELSE [err |-> NoErr, m |-> MapSet(m, fields[1], fields[2])]

\* the error returned and the map afterwards
parseKeyValueArg(value, m) ==
    LET fields == splitEscapedString(value, Eq, Backslash)
    IN  IF Len(fields) # 2
        THEN [err |-> NewError("malformed",
                               <<"could not parse key value pair: ">> \o value),
              m |-> m]
        ELSE [err |-> NoErr, m |-> MapSet(m, fields[1], fields[2])]

----------------------------------------------------------------------------
(* Setters.  A setter of a caller of the parser records its value in calls *)
(* only; the six setters of parseArchiveAndOutputPath also write the       *)
(* archive or outputPath.                                                  *)

NilSetter == "nil"
Setters == {"s1", "s2"}

FlagID == <<"-", "-", "i", "d">>
FlagPkgPath == <<"-", "-", "p", "k", "g", "-", "p", "a", "t", "h">>
FlagExportFile ==
    <<"-", "-", "e", "x", "p", "o", "r", "t", "-", "f", "i", "l", "e">>
FlagDataSrcs == <<"-", "-", "d", "a", "t", "a", "-", "s", "r", "c", "s">>
FlagDirectPkg == <<"-", "-", "d", "i", "r", "e", "c", "t", "-", "p", "k", "g">>
FlagOutputFile ==
    <<"-", "-", "o", "u", "t", "p", "u", "t", "-", "f", "i", "l", "e">>

DotGo == <<".", "g", "o">>

\* strings.HasSuffix
HasSuffix(s, suffix) ==
    /\ Len(s) >= Len(suffix)
    /\ SubSeq(s, Len(s) - Len(suffix) + 1, Len(s)) = suffix

\* archive{Imports: make(map[string]string)} of main
EmptyArchive ==
    [ID |-> <<>>, PkgPath |-> <<>>, ExportFile |-> <<>>, GoFiles |-> <<>>,
     CompiledGoFiles |-> <<>>, OtherFiles |-> <<>>, Imports |-> <<>>]

\* the closures registered by parseArchiveAndOutputPath; h is the state they
\* capture: [archive, outputPath]
SetID(h, value) == [h EXCEPT !.archive.ID = value]
SetPkgPath(h, value) == [h EXCEPT !.archive.PkgPath = value]
SetExportFile(h, value) == [h EXCEPT !.archive.ExportFile = value]
\* SetDataSrcs that appends a Go file to CompiledGoFiles only
SetDataSrcsCompiledOnly(h, value) ==
    IF HasSuffix(value, DotGo)
    THEN [h EXCEPT !.archive.CompiledGoFiles =
                       Append(h.archive.CompiledGoFiles, value)]
    ELSE [h EXCEPT !.archive.OtherFiles = Append(h.archive.OtherFiles, value)]

SetDataSrcs(h, value) ==
    IF HasSuffix(value, DotGo)
    THEN [h EXCEPT !.archive.GoFiles = Append(h.archive.GoFiles, value),
                   !.archive.CompiledGoFiles =
                       Append(h.archive.CompiledGoFiles, value)]
    ELSE [h EXCEPT !.archive.OtherFiles = Append(h.archive.OtherFiles, value)]
\* the error of parseKeyValueArg is dropped
SetDirectPkg(h, value) ==
    [h EXCEPT !.archive.Imports = parseKeyValueArg(value, h.archive.Imports).m]
SetOutputFile(h, value) == [h EXCEPT !.outputPath = value]

\* calling a setter
CallSetter(setter, h, value) ==
    CASE setter = "setID" -> SetID(h, value)
      [] setter = "setPkgPath" -> SetPkgPath(h, value)
      [] setter = "setExportFile" -> SetExportFile(h, value)
      [] setter = "setDataSrcs" -> SetDataSrcs(h, value)
      [] setter = "setDirectPkg" -> SetDirectPkg(h, value)
      [] setter = "setOutputFile" -> SetOutputFile(h, value)
      [] OTHER -> h

\* the registry built by the WithArg chain of parseArchiveAndOutputPath
HostArgs ==
    [f \in {FlagID, FlagPkgPath, FlagExportFile, FlagDataSrcs, FlagDirectPkg,
            FlagOutputFile} |->
        CASE f = FlagID -> "setID"
          [] f = FlagPkgPath -> "setPkgPath"
          [] f = FlagExportFile -> "setExportFile"
          [] f = FlagDataSrcs -> "setDataSrcs"
          [] f = FlagDirectPkg -> "setDirectPkg"
          [] f = FlagOutputFile -> "setOutputFile"]

----------------------------------------------------------------------------
(* Inputs *)

\* flag names a caller registers
FlagNames == {<<"a">>, <<"b">>, <<At, "a">>}

\* tokens of an argument list
ArgTokens == {<<"a">>, <<"b">>, <<"x">>, <<At, "a">>, <<At>>, <<>>}

\* tokens written to a params file, one per line
LineTokens == {<<"a">>, <<"b">>, <<"x">>, <<At, "a">>, <<>>}

RECURSIVE JoinLines(_, _, _)
JoinLines(lines, term, trailing) ==
    IF lines = <<>> THEN <<>>
    ELSE IF Len(lines) = 1
         THEN Head(lines) \o (IF trailing THEN term ELSE <<>>)
         ELSE Head(lines) \o term \o JoinLines(Tail(lines), term, trailing)

\* contents of a params file: lines ended by LF, the last one not ended, or
\* lines ended by CR LF
StreamData ==
    {JoinLines(l, <<LF>>, FALSE) : l \in SeqsUpTo(LineTokens, MaxLines)}
    \cup {JoinLines(l, <<CR, LF>>, TRUE) : l \in SeqsUpTo(LineTokens, MaxLines)}

\* what paramsReaderGetter returns: an error, or a reader
ProviderOutcomes ==
    [err : ProviderErrs, data : {<<>>}, readErr : {NoErr}]
    \cup [err : {NoErr}, data : StreamData, readErr : ReadErrs]

----------------------------------------------------------------------------
(* bazelArgsParser *)

\* no stream: paramsReaderGetter was not called
NoReader ==
    [err |-> NoErr, data |-> <<>>, readErr |-> NoErr, open |-> FALSE]

\* the (io.Reader, error) pair paramsReaderGetter returned
Returned(po, open) ==
    [err |-> po.err, data |-> po.data, readErr |-> po.readErr, open |-> open]

\* no Parse call has been made on the parser before the current one
NoPrevious ==
    [called |-> FALSE, arguments |-> <<>>, currentSetter |-> NilSetter,
     result |-> Pending, calls |-> <<>>]

Init ==
    /\ args = <<>>
    /\ pc = "idle"
    /\ arguments = <<>>
    /\ scanner = NoScanner
    /\ currentSetter = NilSetter
    /\ calls = <<>>
    /\ providerCalls = <<>>
    /\ paramsReader = NoReader
    /\ pulled = <<>>
    /\ result = Pending
    /\ archive = EmptyArchive
    /\ outputPath = <<>>
    /\ hostResult = [path |-> <<>>, err |-> Pending]
    /\ splitIn = [value |-> <<>>, delimiter |-> Eq, escape |-> Backslash]
    /\ splitOut = <<>>
    /\ kvIn = [value |-> <<>>, m |-> <<>>]
    /\ kvOut = [err |-> Pending, m |-> <<>>]
    /\ scannerTrace = <<>>
    /\ registrations = <<>>
    /\ previous = NoPrevious

\* MapPut that keeps the entry a flag already has
MapPutKeepsFirst(m, flag, setter) ==
    [f \in (DOMAIN m) \cup {flag} |-> IF f \in DOMAIN m THEN m[f] ELSE setter]

\* p.args[flag] = arg{Setter: setter}
MapPut(m, flag, setter) ==
    [f \in (DOMAIN m) \cup {flag} |-> IF f = flag THEN setter ELSE m[f]]

WithArg(flag, setter) ==
    /\ pc = "idle"
    /\ args' = MapPut(args, flag, setter)
    /\ UNCHANGED <<pc, arguments, scanner, currentSetter, calls,
                   providerCalls, paramsReader, pulled, result>>
    /\ UNCHANGED hostVars
    /\ UNCHANGED splitVars
    /\ UNCHANGED unitVars
    /\ UNCHANGED previous

\* UnexpectedFlag with the token left out of the message
UnexpectedFlagNoToken(token) ==
    NewError("unexpected", <<"unexpected flag ">>)

\* errors.New(fmt.Sprintf("unexpected flag %s", token))
UnexpectedFlag(token) ==
    NewError("unexpected", <<"unexpected flag ">> \o token)

\* ParseEnter without the test for a single argument
ParseEnterNoLengthCheck(a, po) ==
    LET ret(r) == [pc |-> "returned", scanner |-> NoScanner, result |-> r,
                   providerCalls |-> <<>>, paramsReader |-> NoReader]
    IN  IF Len(a) = 0
        THEN ret(NoErr)
        ELSE IF Len(a[1]) = 0
        THEN [ret(Panic) EXCEPT !.pc = "panicked"]
        ELSE IF a[1][1] # At
        THEN [pc |-> "loop", scanner |-> newSliceScanner(a),
              result |-> Pending, providerCalls |-> <<>>,
              paramsReader |-> NoReader]
        ELSE IF po.err # NoErr
        THEN [ret(po.err) EXCEPT !.providerCalls = <<Tail(a[1])>>,
                                 !.paramsReader = Returned(po, FALSE)]
        ELSE [pc |-> "loop", scanner |-> NewBufioScanner(po),
              result |-> Pending, providerCalls |-> <<Tail(a[1])>>,
              paramsReader |-> Returned(po, TRUE)]

\* ParseEnter with the provider's error replaced by an error of its own
ParseEnterWrapsError(a, po) ==
    LET ret(r) == [pc |-> "returned", scanner |-> NoScanner, result |-> r,
                   providerCalls |-> <<>>, paramsReader |-> NoReader]
    IN  IF Len(a) = 0
        THEN ret(NoErr)
        ELSE IF Len(a[1]) = 0
        THEN [ret(Panic) EXCEPT !.pc = "panicked"]
        ELSE IF a[1][1] # At
        THEN [pc |-> "loop", scanner |-> newSliceScanner(a),
              result |-> Pending, providerCalls |-> <<>>,
              paramsReader |-> NoReader]
        ELSE IF Len(a) > 1
        THEN ret(NewError("usage",
                          <<"expected single argument with param file">>))
        ELSE IF po.err # NoErr
        THEN [ret(NewError("usage", <<"cannot read param file">>))
                  EXCEPT !.providerCalls = <<Tail(a[1])>>,
                         !.paramsReader = Returned(po, FALSE)]
        ELSE [pc |-> "loop", scanner |-> NewBufioScanner(po),
              result |-> Pending, providerCalls |-> <<Tail(a[1])>>,
              paramsReader |-> Returned(po, TRUE)]

\* Parse up to its call of parseBazelArguments, whose first statement
\* declares currentSetter; po is what paramsReaderGetter returns if called
ParseEnter(a, po) ==
    LET ret(r) == [pc |-> "returned", scanner |-> NoScanner, result |-> r,
                   providerCalls |-> <<>>, paramsReader |-> NoReader]
    IN  IF Len(a) = 0
        THEN ret(NoErr)
        ELSE IF Len(a[1]) = 0
        THEN [ret(Panic) EXCEPT !.pc = "panicked"]
        ELSE IF a[1][1] # At
        THEN [pc |-> "loop", scanner |-> newSliceScanner(a),
              result |-> Pending, providerCalls |-> <<>>,
              paramsReader |-> NoReader]
        ELSE IF Len(a) > 1
        THEN ret(NewError("usage",
                          <<"expected single argument with param file">>))
        ELSE IF po.err # NoErr
        THEN [ret(po.err) EXCEPT !.providerCalls = <<Tail(a[1])>>,
                                 !.paramsReader = Returned(po, FALSE)]
        ELSE [pc |-> "loop", scanner |-> NewBufioScanner(po),
              result |-> Pending, providerCalls |-> <<Tail(a[1])>>,
              paramsReader |-> Returned(po, TRUE)]

\* the argument lists for which Parse reaches its paramsReaderGetter call
CallsProvider(a) == Len(a) = 1 /\ Len(a[1]) > 0 /\ a[1][1] = At

\* the provider outcome of a Parse call that does not call the provider
NoOutcome == [err |-> NoErr, data |-> <<>>, readErr |-> NoErr]

ParseBegin(a, po) ==
    /\ pc = "idle"
    /\ arguments' = a
    /\ LET e == ParseEnter(a, po)
       IN  /\ pc' = e.pc
           /\ scanner' = e.scanner
           /\ result' = e.result
           /\ providerCalls' = e.providerCalls
           /\ paramsReader' = e.paramsReader
    /\ currentSetter' = NilSetter
    /\ calls' = <<>>
    /\ pulled' = <<>>
    /\ UNCHANGED args
    /\ UNCHANGED hostVars
    /\ UNCHANGED splitVars
    /\ UNCHANGED unitVars
    /\ UNCHANGED clientVars

\* ScanFlag without the continue: the flag token goes on to the setter
ScanFlagNoContinue ==
    /\ pc = "loop"
    /\ Scan(scanner).ok
    /\ LET s == Scan(scanner).s
           token == Text(s)
           h == CallSetter(args[token],
                           [archive |-> archive, outputPath |-> outputPath],
                           token)
       IN  /\ token \in DOMAIN args
           /\ args[token] # NilSetter
           /\ scanner' = s
           /\ pulled' = Append(pulled, token)
           /\ currentSetter' = args[token]
           /\ calls' = Append(calls, <<args[token], token>>)
           /\ archive' = h.archive
           /\ outputPath' = h.outputPath
    /\ UNCHANGED <<args, pc, arguments, providerCalls, paramsReader, result>>
    /\ UNCHANGED hostResult
    /\ UNCHANGED splitVars
    /\ UNCHANGED unitVars
    /\ UNCHANGED clientVars

\* the token is a registered flag: it becomes the active setter
ScanFlag ==
    /\ pc = "loop"
    /\ Scan(scanner).ok
    /\ LET s == Scan(scanner).s
           token == Text(s)
       IN  /\ token \in DOMAIN args
           /\ scanner' = s
           /\ pulled' = Append(pulled, token)
           /\ currentSetter' = args[token]
    /\ UNCHANGED <<args, pc, arguments, calls, providerCalls, paramsReader,
                   result>>
    /\ UNCHANGED hostVars
    /\ UNCHANGED splitVars
    /\ UNCHANGED unitVars
    /\ UNCHANGED clientVars

\* ScanReject that notes the error and goes on with the next token
ScanRejectContinues ==
    /\ pc = "loop"
    /\ Scan(scanner).ok
    /\ LET s == Scan(scanner).s
           token == Text(s)
       IN  /\ token \notin DOMAIN args
           /\ currentSetter = NilSetter
           /\ scanner' = s
           /\ pulled' = Append(pulled, token)
           /\ result' = UnexpectedFlag(token)
    /\ UNCHANGED <<args, pc, arguments, currentSetter, calls, providerCalls,
                   paramsReader>>
    /\ UNCHANGED hostVars
    /\ UNCHANGED splitVars
    /\ UNCHANGED unitVars
    /\ UNCHANGED clientVars

\* ScanReject without the test for an active setter: a value is rejected
\* whether a setter is active or not
ScanRejectActiveSetter ==
    /\ pc = "loop"
    /\ Scan(scanner).ok
    /\ LET s == Scan(scanner).s
           token == Text(s)
       IN  /\ token \notin DOMAIN args
           /\ scanner' = s
           /\ pulled' = Append(pulled, token)
           /\ result' = UnexpectedFlag(token)
    /\ pc' = "returned"
    /\ UNCHANGED <<args, arguments, currentSetter, calls, providerCalls,
                   paramsReader>>
    /\ UNCHANGED hostVars
    /\ UNCHANGED splitVars
    /\ UNCHANGED unitVars
    /\ UNCHANGED clientVars

\* the token is no flag and no setter is active
ScanReject ==
    /\ pc = "loop"
    /\ Scan(scanner).ok
    /\ LET s == Scan(scanner).s
           token == Text(s)
       IN  /\ token \notin DOMAIN args
           /\ currentSetter = NilSetter
           /\ scanner' = s
           /\ pulled' = Append(pulled, token)
           /\ result' = UnexpectedFlag(token)
    /\ pc' = "returned"
    /\ UNCHANGED <<args, arguments, currentSetter, calls, providerCalls,
                   paramsReader>>
    /\ UNCHANGED hostVars
    /\ UNCHANGED splitVars
    /\ UNCHANGED unitVars
    /\ UNCHANGED clientVars

\* the token is a value: currentSetter(token)
ScanValue ==
    /\ pc = "loop"
    /\ Scan(scanner).ok
    /\ LET s == Scan(scanner).s
           token == Text(s)
           h == CallSetter(currentSetter,
                           [archive |-> archive, outputPath |-> outputPath],
                           token)
       IN  /\ token \notin DOMAIN args
           /\ currentSetter # NilSetter
           /\ scanner' = s
           /\ pulled' = Append(pulled, token)
           /\ calls' = Append(calls, <<currentSetter, token>>)
           /\ archive' = h.archive
           /\ outputPath' = h.outputPath
    /\ UNCHANGED <<args, pc, arguments, currentSetter, providerCalls,
                   paramsReader, result>>
    /\ UNCHANGED hostResult
    /\ UNCHANGED splitVars
    /\ UNCHANGED unitVars
    /\ UNCHANGED clientVars

\* Scan returns false: the loop ends and parseBazelArguments returns nil
ScanEnd ==
    /\ pc = "loop"
    /\ ~Scan(scanner).ok
    /\ scanner' = Scan(scanner).s
    /\ result' = NoErr
    /\ pc' = "returned"
    /\ UNCHANGED <<args, arguments, currentSetter, calls, providerCalls,
                   paramsReader, pulled>>
    /\ UNCHANGED hostVars
    /\ UNCHANGED splitVars
    /\ UNCHANGED unitVars
    /\ UNCHANGED clientVars

\* the caller registers a flag
CallWithArg ==
    /\ pc = "idle"
    /\ \E flag \in FlagNames, setter \in Setters \cup {NilSetter} :
           WithArg(flag, setter)
    /\ UNCHANGED registrations

\* the caller calls Parse
CallParse ==
    /\ pc = "idle"
    /\ \E a \in SeqsUpTo(ArgTokens, MaxArgs) :
           \E po \in (IF CallsProvider(a) THEN ProviderOutcomes
                                         ELSE {NoOutcome}) :
               ParseBegin(a, po)

Next ==
    \/ CallWithArg
    \/ CallParse
    \/ ScanFlag
    \/ ScanReject
    \/ ScanValue
    \/ ScanEnd

Spec == Init /\ [][Next]_vars

----------------------------------------------------------------------------
(* parseArchiveAndOutputPath *)

\* tokens of the host's argument list and of its params file
HostTokens ==
    {FlagOutputFile, FlagDirectPkg, FlagDataSrcs, FlagID, FlagPkgPath,
     FlagExportFile,
     <<"o">>, <<"k", Eq, "v">>, <<"a", ".", "g", "o">>, <<>>}

HostArgLists ==
    SeqsUpTo(HostTokens, MaxHostArgs) \cup {<< <<At, "p">> >>}

HostProviderOutcomes ==
    [err : ProviderErrs, data : {<<>>}, readErr : {NoErr}]
    \cup [err : {NoErr},
          data : {JoinLines(l, <<LF>>, FALSE) :
                      l \in SeqsUpTo(HostTokens, MaxLines)},
          readErr : ReadErrs]

\* parseArchiveAndOutputPath up to the loop of the Parse it calls: the
\* parser is built with its six flags and Parse is entered
HostBegin(a, po) ==
    /\ pc = "idle"
    /\ args' = HostArgs
    /\ arguments' = a
    /\ LET e == ParseEnter(a, po)
       IN  /\ pc' = e.pc
           /\ scanner' = e.scanner
           /\ result' = e.result
           /\ providerCalls' = e.providerCalls
           /\ paramsReader' = e.paramsReader
    /\ currentSetter' = NilSetter
    /\ calls' = <<>>
    /\ pulled' = <<>>
    /\ archive' = EmptyArchive
    /\ outputPath' = <<>>
    /\ UNCHANGED hostResult
    /\ UNCHANGED splitVars
    /\ UNCHANGED unitVars
    /\ UNCHANGED clientVars

\* HostOutcome without the test for an empty output path
HostOutcomeNoPathCheck(err, path) ==
    IF err # NoErr
    THEN [path |-> <<>>, err |-> err]
    ELSE [path |-> path, err |-> err]

\* what parseArchiveAndOutputPath returns once Parse has returned err
HostOutcome(err, path) ==
    IF err # NoErr
    THEN [path |-> <<>>, err |-> err]
    ELSE IF path = <<>>
    THEN [path |-> <<>>,
          err |-> NewError("usage", <<"invalid usage: no output path">>)]
    ELSE [path |-> path, err |-> err]

HostReturn ==
    /\ pc = "returned"
    /\ hostResult' = HostOutcome(result, outputPath)
    /\ pc' = "hostDone"
    /\ UNCHANGED <<args, arguments, scanner, currentSetter, calls,
                   providerCalls, paramsReader, pulled, result>>
    /\ UNCHANGED <<archive, outputPath>>
    /\ UNCHANGED splitVars
    /\ UNCHANGED unitVars
    /\ UNCHANGED clientVars

\* main calls parseArchiveAndOutputPath
CallHost ==
    /\ pc = "idle"
    /\ \E a \in HostArgLists :
           \E po \in (IF CallsProvider(a) THEN HostProviderOutcomes
                                         ELSE {NoOutcome}) :
               HostBegin(a, po)

HostNext ==
    \/ CallHost
    \/ ScanFlag
    \/ ScanReject
    \/ ScanValue
    \/ ScanEnd
    \/ HostReturn

SpecHost == Init /\ [][HostNext]_vars

----------------------------------------------------------------------------
(* splitEscapedString as a function of its arguments *)

SplitChars == {Eq, Backslash, "a"}

SplitInit ==
    /\ args = <<>>
    /\ pc = "idle"
    /\ arguments = <<>>
    /\ scanner = NoScanner
    /\ currentSetter = NilSetter
    /\ calls = <<>>
    /\ providerCalls = <<>>
    /\ paramsReader = NoReader
    /\ pulled = <<>>
    /\ result = Pending
    /\ archive = EmptyArchive
    /\ outputPath = <<>>
    /\ hostResult = [path |-> <<>>, err |-> Pending]
    /\ splitIn \in [value : SeqsUpTo(SplitChars, MaxLen),
                    delimiter : SplitChars, escape : SplitChars]
    /\ splitOut = <<>>
    /\ kvIn = [value |-> <<>>, m |-> <<>>]
    /\ kvOut = [err |-> Pending, m |-> <<>>]
    /\ scannerTrace = <<>>
    /\ registrations = <<>>
    /\ previous = NoPrevious

SplitCall ==
    /\ pc = "idle"
    /\ splitOut' =
           splitEscapedString(splitIn.value, splitIn.delimiter, splitIn.escape)
    /\ pc' = "split"
    /\ UNCHANGED <<args, arguments, scanner, currentSetter, calls,
                   providerCalls, paramsReader, pulled, result>>
    /\ UNCHANGED hostVars
    /\ UNCHANGED splitIn
    /\ UNCHANGED unitVars
    /\ UNCHANGED clientVars

SplitNext == SplitCall

SpecSplit == SplitInit /\ [][SplitNext]_vars

----------------------------------------------------------------------------
(* A parser whose WithArg calls are recorded in call order *)

RecordedFlags == {<<"a">>, <<"b">>}

\* tokens of the short argument lists
ShortTokens == {<<"a">>, <<"b">>, <<"x">>, <<>>}

\* the caller registers a flag; the call is recorded
CallWithArgRecorded ==
    /\ pc = "idle"
    /\ Len(registrations) < MaxWithArgs
    /\ \E flag \in RecordedFlags, setter \in Setters \cup {NilSetter} :
           /\ WithArg(flag, setter)
           /\ registrations' = Append(registrations, <<flag, setter>>)

\* the caller calls Parse with a short argument list
CallParseShort ==
    /\ pc = "idle"
    /\ \E a \in SeqsUpTo(ShortTokens, MaxShortArgs) : ParseBegin(a, NoOutcome)

RegisterNext ==
    \/ CallWithArgRecorded
    \/ CallParseShort
    \/ ScanFlag
    \/ ScanReject
    \/ ScanValue
    \/ ScanEnd

SpecRegister == Init /\ [][RegisterNext]_vars

----------------------------------------------------------------------------
(* A parser on which Parse is called again after it has returned *)

\* params files whose lines are the tokens of a short argument list
ShortProviderOutcomes ==
    [err : ProviderErrs, data : {<<>>}, readErr : {NoErr}]
    \cup [err : {NoErr},
          data : {JoinLines(l, <<LF>>, FALSE) :
                      l \in SeqsUpTo(ShortTokens, MaxShortArgs)},
          readErr : ReadErrs]

\* ParseAgain with the active setter of the call before left in place
ParseAgainKeepsSetter(a, po) ==
    /\ pc = "returned"
    /\ previous' = [called |-> TRUE, arguments |-> arguments,
                    currentSetter |-> currentSetter, result |-> result,
                    calls |-> calls]
    /\ arguments' = a
    /\ LET e == ParseEnter(a, po)
       IN  /\ pc' = e.pc
           /\ scanner' = e.scanner
           /\ result' = e.result
           /\ providerCalls' = e.providerCalls
           /\ paramsReader' = e.paramsReader
    /\ calls' = <<>>
    /\ pulled' = <<>>
    /\ UNCHANGED <<args, currentSetter>>
    /\ UNCHANGED hostVars
    /\ UNCHANGED splitVars
    /\ UNCHANGED unitVars
    /\ UNCHANGED registrations

\* Parse called on a parser whose earlier Parse call has returned: as
\* ParseBegin, with the call that returned kept in previous
ParseAgain(a, po) ==
    /\ pc = "returned"
    /\ previous' = [called |-> TRUE, arguments |-> arguments,
                    currentSetter |-> currentSetter, result |-> result,
                    calls |-> calls]
    /\ arguments' = a
    /\ LET e == ParseEnter(a, po)
       IN  /\ pc' = e.pc
           /\ scanner' = e.scanner
           /\ result' = e.result
           /\ providerCalls' = e.providerCalls
           /\ paramsReader' = e.paramsReader
    /\ currentSetter' = NilSetter
    /\ calls' = <<>>
    /\ pulled' = <<>>
    /\ UNCHANGED args
    /\ UNCHANGED hostVars
    /\ UNCHANGED splitVars
    /\ UNCHANGED unitVars
    /\ UNCHANGED registrations

\* the caller calls Parse a second time, with program arguments or a params
\* file
CallParseAgain ==
    /\ pc = "returned"
    /\ ~previous.called
    /\ \E a \in SeqsUpTo(ShortTokens, MaxShortArgs) \cup {<< <<At, "p">> >>} :
           \E po \in (IF CallsProvider(a) THEN ShortProviderOutcomes
                                         ELSE {NoOutcome}) :
               ParseAgain(a, po)

ReparseNext ==
    \/ CallWithArg
    \/ CallParseShort
    \/ CallParseAgain
    \/ ScanFlag
    \/ ScanReject
    \/ ScanValue
    \/ ScanEnd

SpecReparse == Init /\ [][ReparseNext]_vars

----------------------------------------------------------------------------
(* sliceScanner used on its own: any sequence of Scan, Text and Err calls *)

ScannerInit ==
    /\ args = <<>>
    /\ pc = "idle"
    /\ arguments = <<>>
    /\ scanner \in {newSliceScanner(tokens) :
                        tokens \in SeqsUpTo(ShortTokens, MaxTokens)}
    /\ currentSetter = NilSetter
    /\ calls = <<>>
    /\ providerCalls = <<>>
    /\ paramsReader = NoReader
    /\ pulled = <<>>
    /\ result = Pending
    /\ archive = EmptyArchive
    /\ outputPath = <<>>
    /\ hostResult = [path |-> <<>>, err |-> Pending]
    /\ splitIn = [value |-> <<>>, delimiter |-> Eq, escape |-> Backslash]
    /\ splitOut = <<>>
    /\ kvIn = [value |-> <<>>, m |-> <<>>]
    /\ kvOut = [err |-> Pending, m |-> <<>>]
    /\ scannerTrace = <<>>
    /\ registrations = <<>>
    /\ previous = NoPrevious

\* a call on the scanner: what it returned and lastIndex after it
Called(op, ret, s) == [op |-> op, ret |-> ret, lastIndex |-> s.lastIndex]

ScanCall ==
    /\ Len(scannerTrace) < MaxScannerCalls
    /\ scanner' = SliceScan(scanner).s
    /\ scannerTrace' =
           Append(scannerTrace,
                  Called("Scan", SliceScan(scanner).ok, SliceScan(scanner).s))
    /\ UNCHANGED <<args, pc, arguments, currentSetter, calls, providerCalls,
                   paramsReader, pulled, result>>
    /\ UNCHANGED hostVars
    /\ UNCHANGED splitVars
    /\ UNCHANGED <<kvIn, kvOut>>
    /\ UNCHANGED clientVars

TextCall ==
    /\ Len(scannerTrace) < MaxScannerCalls
    /\ scannerTrace' =
           Append(scannerTrace, Called("Text", SliceText(scanner), scanner))
    /\ UNCHANGED <<args, pc, arguments, scanner, currentSetter, calls,
                   providerCalls, paramsReader, pulled, result>>
    /\ UNCHANGED hostVars
    /\ UNCHANGED splitVars
    /\ UNCHANGED <<kvIn, kvOut>>
    /\ UNCHANGED clientVars

ErrCall ==
    /\ Len(scannerTrace) < MaxScannerCalls
    /\ scannerTrace' =
           Append(scannerTrace, Called("Err", SliceErr(scanner), scanner))
    /\ UNCHANGED <<args, pc, arguments, scanner, currentSetter, calls,
                   providerCalls, paramsReader, pulled, result>>
    /\ UNCHANGED hostVars
    /\ UNCHANGED splitVars
    /\ UNCHANGED <<kvIn, kvOut>>
    /\ UNCHANGED clientVars

ScannerNext ==
    \/ ScanCall
    \/ TextCall
    \/ ErrCall

SpecScanner == ScannerInit /\ [][ScannerNext]_vars

----------------------------------------------------------------------------
(* parseKeyValueArg as a function of its arguments *)

\* maps handed to parseKeyValueArg: empty, with one entry, with the empty
\* key, with two entries
KeyValueMaps ==
    {<<>>,
     MapSet(<<>>, <<"a">>, <<"a">>),
     MapSet(<<>>, <<>>, <<"a">>),
     MapSet(MapSet(<<>>, <<"a">>, <<>>), <<Eq>>, <<"a">>)}

KeyValueInit ==
    /\ args = <<>>
    /\ pc = "idle"
    /\ arguments = <<>>
    /\ scanner = NoScanner
    /\ currentSetter = NilSetter
    /\ calls = <<>>
    /\ providerCalls = <<>>
    /\ paramsReader = NoReader
    /\ pulled = <<>>
    /\ result = Pending
    /\ archive = EmptyArchive
    /\ outputPath = <<>>
    /\ hostResult = [path |-> <<>>, err |-> Pending]
    /\ splitIn = [value |-> <<>>, delimiter |-> Eq, escape |-> Backslash]
    /\ splitOut = <<>>
    /\ kvIn \in [value : SeqsUpTo(SplitChars, MaxLen), m : KeyValueMaps]
    /\ kvOut = [err |-> Pending, m |-> <<>>]
    /\ scannerTrace = <<>>
    /\ registrations = <<>>
    /\ previous = NoPrevious

KeyValueCall ==
    /\ pc = "idle"
    /\ kvOut' = parseKeyValueArg(kvIn.value, kvIn.m)
    /\ pc' = "keyValue"
    /\ UNCHANGED <<args, arguments, scanner, currentSetter, calls,
                   providerCalls, paramsReader, pulled, result>>
    /\ UNCHANGED hostVars
    /\ UNCHANGED splitVars
    /\ UNCHANGED <<kvIn, scannerTrace>>
    /\ UNCHANGED clientVars

KeyValueNext == KeyValueCall

SpecKeyValue == KeyValueInit /\ [][KeyValueNext]_vars

----------------------------------------------------------------------------
(* Properties of Parse *)

\* positions of tokens that are values (no registered flag name)
ValuePositions(tokens, reg) ==
    {i \in 1..Len(tokens) : tokens[i] \notin DOMAIN reg}

\* the nearest flag token before position i
FlagBefore(tokens, reg, i) ==
    CHOOSE j \in 1..(i - 1) :
        /\ tokens[j] \in DOMAIN reg
        /\ \A k \in (j + 1)..(i - 1) : tokens[k] \notin DOMAIN reg

\* the k-th smallest element of a set of numbers
Nth(S, k) == CHOOSE i \in S : Cardinality({j \in S : j < i}) = k - 1

\* the invocations flag grouping asks for: every value token, in stream
\* order, with the setter of the nearest flag token before it
ExpectedCalls(tokens, reg) ==
    LET V == ValuePositions(tokens, reg)
    IN  [k \in 1..Cardinality(V) |->
            <<reg[tokens[FlagBefore(tokens, reg, Nth(V, k))]],
              tokens[Nth(V, k)]>>]

NonNilRegistry == \A f \in DOMAIN args : args[f] # NilSetter

BeginsWithAt(token) == Len(token) > 0 /\ token[1] = At

\* the lines of a text: the pieces between line feeds, the piece after the
\* last line feed when it is not empty, each without a final carriage return
LFPositions(data) == {i \in 1..Len(data) : data[i] = LF}

Lines(data) ==
    LET P == LFPositions(data)
        n == Cardinality(P)
        rest == Len(data) > 0 /\ data[Len(data)] # LF
        start(k) == IF k = 1 THEN 1 ELSE Nth(P, k - 1) + 1
        end(k) == IF k <= n THEN Nth(P, k) - 1 ELSE Len(data)
        strip(l) == IF Len(l) > 0 /\ l[Len(l)] = CR
                    THEN SubSeq(l, 1, Len(l) - 1) ELSE l
    IN  [k \in 1..(n + IF rest THEN 1 ELSE 0) |->
            strip(SubSeq(data, start(k), end(k)))]

\* the token stream the dispatch loop runs over
TokenStream ==
    IF scanner.kind = "slice" THEN scanner.tokens
    ELSE Lines(paramsReader.data)

IsPrefix(p, q) == Len(p) <= Len(q) /\ SubSeq(q, 1, Len(p)) = p

\* C1 (flag grouping): when Parse has run the loop over the in-memory list
\* of its arguments, the first token is a registered flag and no registered
\* setter is nil, Parse returns nil and the setter invocations are exactly
\* the value tokens in order, each with the setter of the nearest flag before
\* it; at no time has a setter received a token that is a registered flag.
FlagGrouping ==
    /\ \A i \in 1..Len(calls) : calls[i][2] \notin DOMAIN args
    /\ (/\ pc = "returned"
        /\ scanner.kind = "slice"
        /\ arguments[1] \in DOMAIN args
        /\ NonNilRegistry)
       => /\ result = NoErr
          /\ scanner.tokens = arguments
          /\ calls = ExpectedCalls(arguments, args)

\* two flags with different setters have each received a value
FlagGroupingWitness ==
    /\ pc = "returned"
    /\ scanner.kind = "slice"
    /\ arguments[1] \in DOMAIN args
    /\ NonNilRegistry
    /\ Len(calls) = 2
    /\ calls[1][1] # calls[2][1]

\* C2 (leading-value rejection): when the first token of the token stream,
\* in memory or read from the params stream, is no registered flag, the loop
\* stops at that token, Parse returns an "unexpected flag" error whose
\* message contains the token, and no setter is invoked.
LeadingValueRejected ==
    (/\ pc \in {"loop", "returned"}
     /\ scanner.kind # "none"
     /\ TokenStream # <<>>
     /\ TokenStream[1] \notin DOMAIN args)
    => /\ calls = <<>>
       /\ pulled \in {<<>>, <<TokenStream[1]>>}
       /\ pulled = <<>> <=> pc = "loop"
       /\ pc = "returned"
          => /\ result.kind = "unexpected"
             /\ Contains(result.msg, TokenStream[1])

\* a params stream whose first line is a value was rejected
LeadingValueRejectedWitness ==
    /\ pc = "returned"
    /\ scanner.kind = "bufio"
    /\ Len(TokenStream) > 1
    /\ TokenStream[1] \notin DOMAIN args
    /\ TokenStream[1] # <<>>
    /\ TokenStream[2] \in DOMAIN args
    /\ result.kind = "unexpected"

\* C3 (indirection exclusivity): for an argument list of more than one
\* element whose first element begins with '@', Parse returns the usage
\* error, paramsReaderGetter is not called and no setter is invoked.
IndirectionExclusive ==
    (/\ pc # "idle"
     /\ Len(arguments) > 1
     /\ BeginsWithAt(arguments[1]))
    => /\ pc = "returned"
       /\ result.kind = "usage"
       /\ providerCalls = <<>>
       /\ ~paramsReader.open
       /\ pulled = <<>>
       /\ calls = <<>>

\* the usage error was returned although the first element is a
\* registered flag
IndirectionExclusiveWitness ==
    /\ pc = "returned"
    /\ Len(arguments) > 1
    /\ BeginsWithAt(arguments[1])
    /\ arguments[1] \in DOMAIN args
    /\ result.kind = "usage"

\* C4 (indirection success): for the single argument '@h' and a provider
\* that returns a stream, the provider has been called exactly once, with h,
\* the tokens the loop reads are the lines of the stream in order (all of
\* them when Parse returns nil), they are dispatched as in-memory tokens are,
\* and a line beginning with '@' is a token like any other.
IndirectionSuccess ==
    (/\ pc \in {"loop", "returned"}
     /\ CallsProvider(arguments)
     /\ paramsReader.err = NoErr)
    => /\ providerCalls = <<Tail(arguments[1])>>
       /\ scanner.kind = "bufio"
       /\ IsPrefix(pulled, Lines(paramsReader.data))
       /\ (pc = "returned" /\ result = NoErr)
          => /\ pulled = Lines(paramsReader.data)
             /\ calls = ExpectedCalls(pulled, args)

\* a stream with a line beginning with '@', ended by CR LF, was dispatched
IndirectionSuccessWitness ==
    /\ pc = "returned"
    /\ CallsProvider(arguments)
    /\ result = NoErr
    /\ Len(pulled) = 3
    /\ \E i \in 1..Len(pulled) : BeginsWithAt(pulled[i])
    /\ \E i \in 1..Len(paramsReader.data) : paramsReader.data[i] = CR
    /\ Len(calls) = 2

\* C5 (stream release): once Parse has returned, the stream obtained from
\* paramsReaderGetter is closed, whichever way the loop ended.
StreamReleased == pc = "returned" => ~paramsReader.open

\* C6 (read failure is terminal): when the token source ended on a read
\* error (Err is not nil after Scan returned false), Parse returns that
\* error.
ReadFailureTerminal ==
    (/\ pc = "returned"
     /\ scanner.kind # "none"
     /\ ~Scan(scanner).ok
     /\ Err(scanner) # NoErr)
    => result = Err(scanner)

\* C8 (stream provider failure): for the single argument '@h' and a
\* provider that returns an error, Parse returns that very error, after one
\* provider call with h, and no token is read and no setter invoked.
ProviderFailure ==
    (/\ pc # "idle"
     /\ CallsProvider(arguments)
     /\ paramsReader.err # NoErr)
    => /\ pc = "returned"
       /\ result = paramsReader.err
       /\ result \in ProviderErrs
       /\ providerCalls = <<Tail(arguments[1])>>
       /\ scanner.kind = "none"
       /\ pulled = <<>>
       /\ calls = <<>>

\* the provider failed for a handle that is a registered flag name
ProviderFailureWitness ==
    /\ pc = "returned"
    /\ CallsProvider(arguments)
    /\ paramsReader.err # NoErr
    /\ providerCalls = <<Tail(arguments[1])>>
    /\ Tail(arguments[1]) \in DOMAIN args
    /\ result = paramsReader.err

\* C9 (in-memory selection): for a non-empty argument list whose first
\* element does not begin with '@', the empty string included, Parse runs
\* the loop over the whole list, does not call the provider and returns nil
\* or the "unexpected flag" error; for the empty list it returns nil with no
\* setter invoked and no provider call.
InMemorySelection ==
    /\ (/\ pc \notin {"idle", "loop"}
        /\ arguments # <<>>
        /\ ~BeginsWithAt(arguments[1]))
       => /\ pc = "returned"
          /\ scanner.kind = "slice"
          /\ scanner.tokens = arguments
          /\ providerCalls = <<>>
          /\ result.kind \in {"nil", "unexpected"}
    /\ (pc \notin {"idle", "loop"} /\ arguments = <<>>)
       => /\ pc = "returned"
          /\ result = NoErr
          /\ providerCalls = <<>>
          /\ calls = <<>>

\* the setter passed in the most recent WithArg call for each flag name
\* WithArg was called with
LatestRegistry ==
    LET names == {registrations[i][1] : i \in 1..Len(registrations)}
        last(f) == CHOOSE i \in 1..Len(registrations) :
                       /\ registrations[i][1] = f
                       /\ \A j \in (i + 1)..Len(registrations) :
                              registrations[j][1] # f
    IN  [f \in names |-> registrations[last(f)][2]]

\* the tokens read so far that the loop has not rejected
Accepted ==
    IF result.kind = "unexpected"
    THEN SubSeq(pulled, 1, Len(pulled) - 1)
    ELSE pulled

\* C13 (registration overwrite): after any sequence of WithArg calls the
\* registry maps each name WithArg was called with to the setter of the most
\* recent call for that name, and every value the loop dispatches goes to the
\* setter most recently registered for the flag before it; so a setter
\* registered earlier under that name is not invoked and a WithArg call for
\* one name leaves the other names as they were.
RegistrationOverwrite ==
    /\ args = LatestRegistry
    /\ pc \in {"loop", "returned"}
       => calls = ExpectedCalls(Accepted, LatestRegistry)

\* a flag was registered twice with different setters, another flag between
\* the two calls, and a value went to the second setter
RegistrationOverwriteWitness ==
    /\ pc = "returned"
    /\ Len(registrations) = 3
    /\ registrations[1] = << <<"a">>, "s1" >>
    /\ registrations[2][1] = <<"b">>
    /\ registrations[3] = << <<"a">>, "s2" >>
    /\ args[<<"b">>] = registrations[2][2]
    /\ arguments = << <<"a">>, <<"x">> >>
    /\ calls = << <<"s2", <<"x">> >> >>

\* C14 (no parse state across calls): in a Parse call made after an earlier
\* call on the same parser has returned, no setter is active before the first
\* token is read, and when the first token of the token stream is no
\* registered flag the loop stops at it, Parse returns the "unexpected flag"
\* error for it, and no setter is invoked: the token does not go to the setter
\* that was active when the earlier call returned.
NoStateAcrossCalls ==
    (previous.called /\ pc \in {"loop", "returned"})
    => /\ pulled = <<>> => currentSetter = NilSetter
       /\ (/\ scanner.kind # "none"
           /\ TokenStream # <<>>
           /\ TokenStream[1] \notin DOMAIN args)
          => /\ calls = <<>>
             /\ pulled \in {<<>>, <<TokenStream[1]>>}
             /\ pc = "returned"
                => /\ result.kind = "unexpected"
                   /\ Contains(result.msg, TokenStream[1])

\* the earlier call returned nil with a setter active, and the later call
\* rejected its first token
NoStateAcrossCallsWitness ==
    /\ previous.called
    /\ previous.result = NoErr
    /\ previous.currentSetter # NilSetter
    /\ previous.calls # <<>>
    /\ pc = "returned"
    /\ arguments = << <<"x">> >>
    /\ result.kind = "unexpected"
    /\ calls = <<>>

\* C15 (state unchanged on error): with a registry without nil setters, when
\* Parse returns an error, which is then the usage error, the provider's
\* error or the "unexpected flag" error, no setter has been invoked in that
\* call; and once a setter has been invoked, Parse has not returned or has
\* returned nil.
NoCallbackBeforeError ==
    NonNilRegistry
    => /\ (pc = "returned" /\ result # NoErr)
          => /\ calls = <<>>
             /\ \/ result.kind \in {"usage", "unexpected"}
                \/ result \in ProviderErrs
       /\ calls # <<>> => result \in {Pending, NoErr}

\* a value before the first flag was rejected, with a registered flag and its
\* value behind it
NoCallbackBeforeErrorWitness ==
    /\ pc = "returned"
    /\ NonNilRegistry
    /\ result.kind = "unexpected"
    /\ Len(arguments) >= 3
    /\ arguments[1] \notin DOMAIN args
    /\ arguments[2] \in DOMAIN args
    /\ arguments[3] \notin DOMAIN args
    /\ calls = <<>>

\* no token has a line feed or a carriage return
NoLineTerminators(tokens) ==
    \A i \in 1..Len(tokens) :
        \A j \in 1..Len(tokens[i]) : tokens[i][j] \notin {LF, CR}

\* the Parse call before was over the program arguments l, and the current
\* one was over the params file whose text is l joined by "\n"
SameTokensBothWays ==
    /\ previous.called
    /\ pc = "returned"
    /\ previous.arguments # <<>>
    /\ NoLineTerminators(previous.arguments)
    /\ previous.arguments[1] \in DOMAIN args
    /\ ~BeginsWithAt(previous.arguments[1])
    /\ CallsProvider(arguments)
    /\ paramsReader.err = NoErr
    /\ paramsReader.data = JoinLines(previous.arguments, <<LF>>, FALSE)

ForwardOnlyCursor ==
    LET n == Len(scanner.tokens)
        t == scannerTrace
        scansBefore(i) == Cardinality({j \in 1..(i - 1) : t[j].op = "Scan"})
        trueBefore(i) ==
            Cardinality({j \in 1..(i - 1) : t[j].op = "Scan" /\ t[j].ret})
    IN  /\ scanner.lastIndex \in -1..(n - 1)
        /\ \A i \in 1..Len(t) : t[i].lastIndex \in -1..(n - 1)
        /\ \A i, j \in 1..Len(t) : i < j => t[i].lastIndex <= t[j].lastIndex
        /\ \A i \in 1..Len(t) :
               t[i].op = "Scan" => (t[i].ret <=> scansBefore(i) < n)
        /\ \A i \in 1..Len(t) :
               t[i].op = "Text"
               => t[i].ret = IF trueBefore(i) = 0
                             THEN <<>>
                             ELSE scanner.tokens[trueBefore(i)]
        /\ \A i \in 1..Len(t) : t[i].op = "Err" => t[i].ret = NoErr

\* over two different tokens: Scan, Text, Scan, Text, and a Scan that
\* returned false
ForwardOnlyCursorWitness ==
    /\ Len(scanner.tokens) = 2
    /\ scanner.tokens[1] # scanner.tokens[2]
    /\ Len(scannerTrace) = 5
    /\ scannerTrace[1] = Called("Scan", TRUE, [lastIndex |-> 0])
    /\ scannerTrace[2] = Called("Text", scanner.tokens[1], [lastIndex |-> 0])
    /\ scannerTrace[3] = Called("Scan", TRUE, [lastIndex |-> 1])
    /\ scannerTrace[4] = Called("Text", scanner.tokens[2], [lastIndex |-> 1])
    /\ scannerTrace[5] = Called("Scan", FALSE, [lastIndex |-> 1])

\* C18 (Parse terminates and stops at the first error): over the in-memory
\* list of n arguments the tokens read are the first arguments, each once and
\* in order, at most n of them; when all n are read Scan returns false and
\* the loop ends; and when the "unexpected flag" error is raised the loop has
\* returned, the rejected token is the last one read, and the invocations are
\* those of the tokens before it.
StopsAtFirstError ==
    (scanner.kind = "slice" /\ pc \in {"loop", "returned"})
    => /\ IsPrefix(pulled, arguments)
       /\ Len(pulled) = scanner.lastIndex + 1
       /\ Len(pulled) <= Len(arguments)
       /\ (pc = "loop" /\ Len(pulled) = Len(arguments)) => ~Scan(scanner).ok
       /\ pc = "loop" => result = Pending
       /\ (pc = "returned" /\ result = NoErr) => pulled = arguments
       /\ result.kind = "unexpected"
          => /\ pc = "returned"
             /\ pulled # <<>>
             /\ pulled[Len(pulled)] \notin DOMAIN args
             /\ result = UnexpectedFlag(pulled[Len(pulled)])
             /\ calls = ExpectedCalls(Accepted, args)

\* the second of four tokens was rejected; the flag and the value behind it
\* were not read
StopsAtFirstErrorWitness ==
    /\ scanner.kind = "slice"
    /\ pc = "returned"
    /\ result.kind = "unexpected"
    /\ Len(arguments) = 4
    /\ Len(pulled) = 2
    /\ arguments[3] \in DOMAIN args
    /\ args[arguments[3]] # NilSetter
    /\ arguments[4] \notin DOMAIN args
    /\ calls = <<>>

----------------------------------------------------------------------------
(* Properties of parseArchiveAndOutputPath *)

\* C7 (malformed pair aborts the parse): when a value delivered to
\* --direct-pkg does not split into exactly two fields,
\* parseArchiveAndOutputPath does not return success: it returns an error
\* (the "could not parse key value pair" error, by the claim).
MalformedPairAborts ==
    (/\ pc = "hostDone"
     /\ \E i \in 1..Len(calls) :
            /\ calls[i][1] = "setDirectPkg"
            /\ Len(splitEscapedString(calls[i][2], Eq, Backslash)) # 2)
    => hostResult.err # NoErr

\* the values delivered to a setter, in delivery order
Delivered(setter) ==
    LET P == {i \in 1..Len(calls) : calls[i][1] = setter}
    IN  [k \in 1..Cardinality(P) |-> calls[Nth(P, k)][2]]

\* C19 (required output designation): parseArchiveAndOutputPath returns a
\* non-empty path with a nil error or the empty path with an error; when
\* Parse returned nil and the last value delivered to --output-file is absent
\* or empty it returns the "no output path" error, otherwise that last
\* value; when Parse returned an error it returns that error.
RequiredOutput ==
    pc = "hostDone"
    => LET out == Delivered("setOutputFile")
           last == IF out = <<>> THEN <<>> ELSE out[Len(out)]
       IN  /\ \/ hostResult.path # <<>> /\ hostResult.err = NoErr
              \/ hostResult.path = <<>> /\ hostResult.err # NoErr
           /\ (result = NoErr /\ last = <<>>)
              => hostResult =
                     [path |-> <<>>,
                      err |-> NewError("usage",
                                       <<"invalid usage: no output path">>)]
           /\ (result = NoErr /\ last # <<>>)
              => hostResult = [path |-> last, err |-> NoErr]
           /\ result # NoErr => hostResult = [path |-> <<>>, err |-> result]

\* two different values were delivered to --output-file and the second one
\* was returned
RequiredOutputWitness ==
    /\ pc = "hostDone"
    /\ Len(Delivered("setOutputFile")) = 2
    /\ Delivered("setOutputFile")[1] # Delivered("setOutputFile")[2]
    /\ Delivered("setOutputFile")[1] # <<>>
    /\ hostResult = [path |-> Delivered("setOutputFile")[2], err |-> NoErr]

\* the value ends in ".go"
EndsInDotGo(value) ==
    LET n == Len(value)
    IN  n >= 3 /\ value[n - 2] = "." /\ value[n - 1] = "g" /\ value[n] = "o"

\* the elements of a sequence of values that end, or do not end, in ".go"
GoValues(values) ==
    LET P == {i \in 1..Len(values) : EndsInDotGo(values[i])}
    IN  [k \in 1..Cardinality(P) |-> values[Nth(P, k)]]

OtherValues(values) ==
    LET P == {i \in 1..Len(values) : ~EndsInDotGo(values[i])}
    IN  [k \in 1..Cardinality(P) |-> values[Nth(P, k)]]

----------------------------------------------------------------------------
(* Properties of splitEscapedString *)

\* the character at position i follows an escape character that is itself
\* not escaped: the run of escape characters that ends at i - 1 is odd
EscapeRun(value, i, escape) ==
    LET starts == {j \in 1..i : \A k \in j..(i - 1) : value[k] = escape}
    IN  i - Nth(starts, 1)

EscapedAt(value, i, escape) == EscapeRun(value, i, escape) % 2 = 1

UnescapedDelimiters(value, delimiter, escape) ==
    {i \in 1..Len(value) :
        value[i] = delimiter /\ ~EscapedAt(value, i, escape)}

\* C10 (splitter field count): for a delimiter and an escape character that
\* differ, splitEscapedString returns at least one field, and one field more
\* than there are delimiters that are not escaped; the empty string gives
\* the one empty field.
SplitFieldCount ==
    (pc = "split" /\ splitIn.delimiter # splitIn.escape)
    => /\ Len(splitOut) >= 1
       /\ Len(splitOut) =
              Cardinality(UnescapedDelimiters(splitIn.value, splitIn.delimiter,
                                              splitIn.escape)) + 1
       /\ splitIn.value = <<>> => splitOut = << <<>> >>

\* a string with an escaped delimiter, an unescaped one and an escaped
\* escape character was split
SplitFieldCountWitness ==
    /\ pc = "split"
    /\ splitIn.delimiter # splitIn.escape
    /\ \E i \in 1..Len(splitIn.value) :
           /\ splitIn.value[i] = splitIn.delimiter
           /\ EscapedAt(splitIn.value, i, splitIn.escape)
    /\ \E i \in 1..Len(splitIn.value) :
           /\ splitIn.value[i] = splitIn.delimiter
           /\ ~EscapedAt(splitIn.value, i, splitIn.escape)
           /\ i > 1
           /\ splitIn.value[i - 1] = splitIn.escape
    /\ Len(splitOut) = 2

\* the fields written one after the other, without separators
RECURSIVE ConcatFields(_)
ConcatFields(fields) ==
    IF fields = <<>> THEN <<>>
    ELSE Head(fields) \o ConcatFields(Tail(fields))

\* positions of the characters that are escaped, or are neither the escape
\* character nor the delimiter
KeptPositions(value, delimiter, escape) ==
    {i \in 1..Len(value) :
        \/ EscapedAt(value, i, escape)
        \/ (value[i] # escape /\ value[i] # delimiter)}

\* value without its unescaped escape characters and unescaped delimiters
Unescaped(value, delimiter, escape) ==
    LET K == KeptPositions(value, delimiter, escape)
    IN  [k \in 1..Cardinality(K) |-> value[Nth(K, k)]]

\* C11 (splitter escaping): the fields splitEscapedString returns, written
\* one after the other, are the input without its unescaped escape
\* characters and unescaped delimiters; so a character after an unescaped
\* escape character is kept, the delimiter and the escape character
\* included, and an escape character that ends the input is dropped.
SplitEscaping ==
    pc = "split"
    => ConcatFields(splitOut) =
           Unescaped(splitIn.value, splitIn.delimiter, splitIn.escape)

\* a string with an escaped delimiter and an escaped escape character, ended
\* by an unescaped escape character, was split into its one field
SplitEscapingWitness ==
    LET n == Len(splitIn.value)
    IN  /\ pc = "split"
        /\ splitIn.delimiter # splitIn.escape
        /\ n > 0
        /\ splitIn.value[n] = splitIn.escape
        /\ ~EscapedAt(splitIn.value, n, splitIn.escape)
        /\ \E i \in 1..n :
               /\ splitIn.value[i] = splitIn.delimiter
               /\ EscapedAt(splitIn.value, i, splitIn.escape)
        /\ \E i \in 1..n :
               /\ splitIn.value[i] = splitIn.escape
               /\ EscapedAt(splitIn.value, i, splitIn.escape)
        /\ splitOut = << <<splitIn.delimiter, splitIn.escape>> >>

\* C12 (key-value decoding): parseKeyValueArg returns nil exactly when the
\* token has one unescaped '='; then the map has the entry from the unescaped
\* text before that '=' to the unescaped text after it, in place of any entry
\* for that key, and its other entries are as before; otherwise the error
\* names the token and the map is as before.
KeyValueDecoding ==
    pc = "keyValue"
    => LET value == kvIn.value
           D == UnescapedDelimiters(value, Eq, Backslash)
           p == Nth(D, 1)
           first == Unescaped(SubSeq(value, 1, p - 1), Eq, Backslash)
           second == Unescaped(SubSeq(value, p + 1, Len(value)), Eq, Backslash)
       IN  /\ kvOut.err = NoErr <=> Cardinality(D) = 1
           /\ kvOut.err = NoErr
              => /\ DOMAIN kvOut.m = (DOMAIN kvIn.m) \cup {first}
                 /\ kvOut.m[first] = second
                 /\ \A k \in (DOMAIN kvIn.m) \ {first} : kvOut.m[k] = kvIn.m[k]
           /\ kvOut.err # NoErr
              => /\ kvOut.err.kind = "malformed"
                 /\ Contains(kvOut.err.msg, value)
                 /\ kvOut.m = kvIn.m

\* a token with an escaped '=' in its key replaced the value of that key in
\* a map of two entries
KeyValueDecodingWitness ==
    /\ pc = "keyValue"
    /\ kvOut.err = NoErr
    /\ Cardinality(DOMAIN kvIn.m) = 2
    /\ DOMAIN kvOut.m = DOMAIN kvIn.m
    /\ kvOut.m # kvIn.m
    /\ kvOut.m[<<Eq>>] # kvIn.m[<<Eq>>]
    /\ kvOut.m[<<"a">>] = kvIn.m[<<"a">>]

====
